---- MODULE Spec2Model ----
(***************************************************************************)
(* State-machine model of the lightweight LoRa PHY workspace API           *)
(* (src/src/phy/phy.cpp, LoRaMod.cpp, LoRaDemod.cpp) driven by a caller    *)
(* that owns one symbol buffer, one sample buffer and one byte buffer.     *)
(*                                                                         *)
(* Floating-point values (cfo, time_offset, findex, phases) are exact      *)
(* rationals <<num, den>>; phases are fractions of a full turn.            *)
(* A complex sample is an abstract value: a zero, sample j of the upchirp  *)
(* of symbol k, or a sample of a dechirped tone of bin k; a buffer of      *)
(* samples is kept as a sequence of runs of such samples.                  *)
(***************************************************************************)
EXTENDS Integers, Sequences, FiniteSets, TLC

\* ------------------------------------------------------------------ bounds
MaxPayloadLen == 2      \* longest payload handed to encode
MaxCalls == 3           \* calls the unconstrained caller makes in one behaviour

\* ------------------------------------------------------------- arithmetic
RECURSIVE Pow2(_)
Pow2(n) == IF n = 0 THEN 1 ELSE 2 * Pow2(n - 1)

Bit(x, i) == (x \div Pow2(i)) % 2

Xor(a, b) == (a + b) % 2

Abs(x) == IF x < 0 THEN -x ELSE x

RECURSIVE Gcd(_, _)
Gcd(a, b) == IF b = 0 THEN a ELSE Gcd(b, a % b)

\* rationals: <<n, d>> with d > 0, in lowest terms
Rat(n, d) ==
    LET s == IF d < 0 THEN -1 ELSE 1
        g == Gcd(Abs(n), Abs(d))
    IN  IF n = 0 THEN <<0, 1>> ELSE <<(s * n) \div g, (s * d) \div g>>

RInt(n) == <<n, 1>>
RAdd(a, b) == Rat(a[1] * b[2] + b[1] * a[2], a[2] * b[2])
RNeg(a) == <<-a[1], a[2]>>
RSub(a, b) == RAdd(a, RNeg(b))
RMul(a, b) == Rat(a[1] * b[1], a[2] * b[2])
RDivInt(a, n) == Rat(a[1], a[2] * n)
RLess(a, b) == a[1] * b[2] < b[1] * a[2]
\* std::floor
RFloor(a) == a[1] \div a[2]
\* std::round: nearest integer, halves away from zero
RRound(a) ==
    IF a[1] >= 0 THEN (2 * a[1] + a[2]) \div (2 * a[2])
    ELSE -((2 * (-a[1]) + a[2]) \div (2 * a[2]))

Half == <<1, 2>>

\* ------------------------------------------------------ Hamming(8,4) codec
\* parity bits over the data nibble; data in the low nibble, parity above
encodeHamming84sx(x) ==
    LET d0 == Bit(x, 0)
        d1 == Bit(x, 1)
        d2 == Bit(x, 2)
        d3 == Bit(x, 3)
    IN  (x % 16)
        + 16  * Xor(Xor(d0, d1), d2)
        + 32  * Xor(Xor(d1, d2), d3)
        + 64  * Xor(Xor(d0, d1), d3)
        + 128 * Xor(Xor(d0, d2), d3)

\* syndrome decode: single-bit correction, double-bit detection
decodeHamming84sx(b) ==
    LET b0 == Bit(b, 0)
        b1 == Bit(b, 1)
        b2 == Bit(b, 2)
        b3 == Bit(b, 3)
        p0 == Xor(Xor(Xor(b0, b1), b2), Bit(b, 4))
        p1 == Xor(Xor(Xor(b1, b2), b3), Bit(b, 5))
        p2 == Xor(Xor(Xor(b0, b1), b3), Bit(b, 6))
        p3 == Xor(Xor(Xor(b0, b2), b3), Bit(b, 7))
        parity == p0 + 2 * p1 + 4 * p2 + 8 * p3
        flip(i) == ((b % 16) + (IF Bit(b, i) = 1 THEN -1 ELSE 1) * Pow2(i))
    IN  [nib |->
            CASE parity = 13 -> flip(0)
              [] parity = 7  -> flip(1)
              [] parity = 11 -> flip(2)
              [] parity = 14 -> flip(3)
              [] OTHER -> b % 16,
         err |-> parity # 0,
         bad |-> parity \notin {0, 1, 2, 4, 8, 13, 7, 11, 14}]

\* ---------------------------------------------------- diagonal interleaver
\* the number whose bit n-1 is bits[n]
RECURSIVE Pack(_, _)
Pack(bits, n) == IF n = 0 THEN 0 ELSE bits[n] * Pow2(n - 1) + Pack(bits, n - 1)

\* blocks of sf codewords of 4+rdd bits become 4+rdd symbols of sf bits: bit k
\* of the codeword in row r goes to symbol k, bit (r - k) mod sf
diagonalInterleaveSx(codewords, numCodewords, sf, rdd) ==
    [j \in 1..((numCodewords \div sf) * (4 + rdd)) |->
        LET x == (j - 1) \div (4 + rdd)
            k == (j - 1) % (4 + rdd)
        IN  Pack([m \in 1..sf |-> Bit(codewords[x * sf + ((m - 1 + k) % sf) + 1], k)], sf)]

\* the inverse permutation
diagonalDeterleaveSx(syms, numSymbols, sf, rdd) ==
    [j \in 1..((numSymbols \div (4 + rdd)) * sf) |->
        LET x == (j - 1) \div sf
            i == (j - 1) % sf
        IN  Pack([k \in 1..(4 + rdd) |->
                    Bit(syms[x * (4 + rdd) + k], (i - (k - 1)) % sf)], 4 + rdd)]

\* CRC-16 step of the SX1272 data checksum: eight shifts with polynomial 0x1021
RECURSIVE BitXor(_, _, _)
BitXor(a, b, w) ==
    IF w = 0 THEN 0
    ELSE Xor(a % 2, b % 2) + 2 * BitXor(a \div 2, b \div 2, w - 1)

RECURSIVE crc16sx(_, _)
crc16sx(crc, i) ==
    IF i = 0 THEN crc
    ELSE crc16sx(IF crc >= 32768
                 THEN BitXor((2 * crc) % 65536, 4129, 16)
                 ELSE (2 * crc) % 65536, i - 1)

RECURSIVE sx1272DataChecksum(_, _)
sx1272DataChecksum(data, length) ==
    IF length = 0 THEN 0
    ELSE LET crc == sx1272DataChecksum(data, length - 1)
         IN  IF crc >= 0
             THEN BitXor(crc16sx(crc, 8), data[length], 16)
             ELSE crc

\* ------------------------------------------------------------ simple codec
\* lora_encode: each byte becomes two symbols, high nibble first; a symbol is
\* the Hamming(8,4) codeword of the nibble kept within the sf-bit alphabet
lora_encode(bytes, sf) ==
    [i \in 1..(2 * Len(bytes)) |->
        LET b == bytes[(i + 1) \div 2]
            nib == IF i % 2 = 1 THEN b \div 16 ELSE b % 16
        IN  encodeHamming84sx(nib) % Pow2(sf)]

\* lora_decode: two symbols become one byte again
lora_decode(syms) ==
    [i \in 1..(Len(syms) \div 2) |->
        16 * decodeHamming84sx(syms[2 * i - 1] % 256).nib
           + decodeHamming84sx(syms[2 * i] % 256).nib]

\* ---------------------------------------------------------------- samples
\* A sample buffer is a sequence of runs. A run is `len` consecutive samples:
\*   "zero"  - samples equal to 0
\*   "chirp" - samples j, j+1, ... of the upchirp of symbol k generated with
\*             oversampling o
\*   "tone"  - samples of a tone at bin k (a chirp already multiplied by the
\*             downchirp)
\* r is the frequency shift (in bins) that rotations have applied to the run
\* and n the index the rotation used for the first sample of the run.
Run(t, k, j, o, len, r, n) ==
    [t |-> t, k |-> k, j |-> j, o |-> o, len |-> len, r |-> r, n |-> n]

ZeroRun(len) == Run("zero", 0, 0, 1, len, <<0, 1>>, 0)
ChirpRun(k, o, len) == Run("chirp", k, 0, o, len, <<0, 1>>, 0)
ToneRun(k, o, len) == Run("tone", k, 0, o, len, <<0, 1>>, 0)

RECURSIVE BufLen(_)
BufLen(b) == IF b = <<>> THEN 0 ELSE Head(b).len + BufLen(Tail(b))

\* samples [d, e) of run x
Trim(x, d, e) ==
    [x EXCEPT !.len = e - d,
              !.j = IF x.t = "chirp" THEN x.j + d ELSE x.j,
              !.n = IF x.r = <<0, 1>> THEN x.n ELSE x.n + d]

\* y continues x, so that both are one run
Continues(x, y) ==
    /\ x.t = y.t /\ x.k = y.k /\ x.o = y.o /\ x.r = y.r
    /\ (x.t = "chirp" => y.j = x.j + x.len)
    /\ (x.r # <<0, 1>> => y.n = x.n + x.len)

\* canonical form: no empty run, no two runs that are one
RECURSIVE Norm(_)
Norm(b) ==
    IF b = <<>> THEN <<>>
    ELSE IF Head(b).len = 0 THEN Norm(Tail(b))
    ELSE LET rest == Norm(Tail(b))
         IN  IF rest # <<>> /\ Continues(Head(b), Head(rest))
             THEN <<[Head(b) EXCEPT !.len = Head(b).len + Head(rest).len]>> \o Tail(rest)
             ELSE <<Head(b)>> \o rest

Max(a, b) == IF a > b THEN a ELSE b
Min(a, b) == IF a < b THEN a ELSE b

\* samples [a, c) of buffer b, the first run of b starting at index `at`
RECURSIVE TakeAt(_, _, _, _)
TakeAt(b, at, a, c) ==
    IF b = <<>> \/ at >= c THEN <<>>
    ELSE LET x == Head(b)
             lo == Max(a, at)
             hi == Min(c, at + x.len)
         IN  (IF lo < hi THEN <<Trim(x, lo - at, hi - at)>> ELSE <<>>)
             \o TakeAt(Tail(b), at + x.len, a, c)

Take(b, a, c) == Norm(TakeAt(b, 0, a, c))

\* write the samples w over the front of buffer buf
StoreSamples(buf, w) == Norm(w \o TakeAt(buf, 0, BufLen(w), BufLen(buf)))

\* genChirp as used by the modulator: step = N * osr samples of the upchirp
\* that starts at the frequency of symbol k
genChirp(k, N, osr) == ChirpRun(k, osr, N * osr)

\* lora_modulate: symbol s occupies out_samples[s*step .. (s+1)*step)
lora_modulate(syms, sf, osr) ==
    [s \in 1..Len(syms) |-> genChirp(syms[s], Pow2(sf), osr)]

\* ------------------------------------------------------------------- state
SymBufLen == 2 * MaxPayloadLen         \* entries of the caller's symbol buffer
PayBufLen == MaxPayloadLen             \* bytes of the caller's byte buffer
IqBufLen == SymBufLen * Pow2(12)       \* samples of the caller's sample buffer

VARIABLES
    plan_fwd,   \* ws->plan_fwd.nfft (0 until init)
    plan_inv,   \* ws->plan_inv.nfft
    osr,        \* ws->osr
    metrics,    \* ws->metrics
    cfg,        \* the lora_params the caller last handed to init
    symbols,    \* caller's uint16_t buffer (index i+1 holds entry i)
    iq,         \* caller's complex sample buffer
    payload,    \* caller's byte buffer
    last,       \* the call just made: operation, arguments, result
    dws,        \* the legacy lora_demod_workspace: N and metrics
    chain,      \* how far a payload has travelled through encode..decode
    calls,      \* number of calls made
    counter,    \* alloc_tracker::counter(): operator new and new[] calls of the library
    parsed,     \* the caller's lorawan::Frame that parse_frame fills
    harness     \* locals of the codec test harness: function, inputs, results

vars == <<plan_fwd, plan_inv, osr, metrics, cfg, symbols, iq, payload, dws, last, chain,
          calls, counter, parsed, harness>>

ZeroMetrics == [crc_ok |-> FALSE, cfo |-> <<0, 1>>, time_offset |-> <<0, 1>>]

NoCfg == [sf |-> 0, bw |-> 0, cr |-> 0, osr |-> 1]

\* wrote: number of output entries the call stored, from entry 0 on
Call(op, ret, cause, n, cap, wrote) ==
    [op |-> op, ret |-> ret, cause |-> cause, n |-> n, cap |-> cap, wrote |-> wrote]

NoChain == [stage |-> "none", p |-> <<>>, n |-> 0]

\* a default-constructed lorawan::Frame
NoFrame ==
    [mtype |-> 0, major |-> 0, devaddr |-> 0, fctrl |-> 0, fcnt |-> 0,
     fopts |-> <<>>, payload |-> <<>>]

NoHarness == [fn |-> "none", in |-> <<>>, res |-> <<>>]

Init ==
    /\ plan_fwd = 0
    /\ plan_inv = 0
    /\ osr = 1
    /\ metrics = ZeroMetrics
    /\ cfg = NoCfg
    /\ symbols = [i \in 1..SymBufLen |-> 0]
    /\ iq = <<ZeroRun(IqBufLen)>>
    /\ payload = [i \in 1..PayBufLen |-> 0]
    /\ last = Call("none", 0, "none", 0, 0, 0)
    /\ dws = [N |-> 0, metrics |-> ZeroMetrics]
    /\ chain = NoChain
    /\ calls = 0
    /\ counter = 0
    /\ parsed = NoFrame
    /\ harness = NoHarness

\* write seq w over the front of buffer buf
Store(buf, w) == [i \in 1..Len(buf) |-> IF i <= Len(w) THEN w[i] ELSE buf[i]]

\* --------------------------------------------------------------- workspace
\* the loop with its comparison reversed: it never runs
deduce_sf_reversed(nfft) ==
    CHOOSE sf \in 0..31 : Pow2(sf) <= nfft /\ \A m \in 0..(sf - 1) : Pow2(m) > nfft

\* the loop with <= for <: one step too many
deduce_sf_long(nfft) ==
    CHOOSE sf \in 0..31 : Pow2(sf) > nfft /\ \A m \in 0..(sf - 1) : Pow2(m) <= nfft

deduce_sf(nfft) == CHOOSE sf \in 0..31 : Pow2(sf) >= nfft /\ \A m \in 0..(sf - 1) : Pow2(m) < nfft


\* parameter sets handed to init: the reference set and variations of one field
BaseParams == [sf |-> 7, bw |-> 0, cr |-> 1, osr |-> 1]

ParamsSet ==
    {[BaseParams EXCEPT !.sf = v] : v \in {6, 7, 8, 13}}
    \cup {[BaseParams EXCEPT !.bw = v] : v \in {0, 3}}
    \cup {[BaseParams EXCEPT !.cr = v] : v \in {1, 5}}
    \cup {[BaseParams EXCEPT !.osr = v] : v \in {0, 1, 2}}

\* what the interface documents as a valid parameter set
ValidParams(c) ==
    /\ c.sf \in 7..12
    /\ c.osr >= 1
    /\ c.bw \in {0, 1, 2}
    /\ c.cr \in 1..4

\* the caller processes data only on a workspace set up with valid parameters
Ready == plan_fwd # 0 /\ ValidParams(cfg)

\* payload bytes of the caller that calls in any order (the chain caller
\* below varies the bytes)
PayloadBytes == {222}

Payloads == UNION {[1..n -> PayloadBytes] : n \in 0..MaxPayloadLen}

\* result of init: only the pointers are examined
init_ret(ws_null, cfg_null, c) == IF ws_null \/ cfg_null THEN -1 ELSE 0

init(nul, c) ==
    /\ IF init_ret(nul = "ws", nul = "cfg", c) # 0
       THEN /\ UNCHANGED <<plan_fwd, plan_inv, metrics, cfg, chain>>
            /\ last' = Call("init", init_ret(nul = "ws", nul = "cfg", c), "null", 0, 0, 0)
       ELSE /\ plan_fwd' = Pow2(c.sf)
            /\ plan_inv' = Pow2(c.sf)
            /\ metrics' = ZeroMetrics
            /\ cfg' = c
            /\ chain' = NoChain
            /\ last' = Call("init", init_ret(nul = "ws", nul = "cfg", c), "ok", 0, 0, 0)
    /\ calls' = calls + 1
    /\ UNCHANGED <<parsed, harness>>
    /\ counter' = counter
    /\ UNCHANGED <<osr, symbols, iq, payload, dws>>

\* reset without its null check
reset_metrics_unchecked(ws_null, m) == ZeroMetrics

\* reset that leaves the time offset in place
reset_metrics_keeps_offset(ws_null, m) ==
    IF ws_null THEN m ELSE [m EXCEPT !.crc_ok = FALSE, !.cfo = <<0, 1>>]

\* metrics after reset
reset_metrics(ws_null, m) == IF ws_null THEN m ELSE ZeroMetrics

reset(nul) ==
    /\ metrics' = reset_metrics(nul = "ws", metrics)
    /\ last' = Call("reset", 0, IF nul = "ws" THEN "null" ELSE "ok", 0, 0, 0)
    /\ calls' = calls + 1
    /\ UNCHANGED <<parsed, harness>>
    /\ counter' = counter
    /\ UNCHANGED <<plan_fwd, plan_inv, osr, cfg, symbols, iq, payload, dws, chain>>

\* value returned by encode, modulate and decode once the pointers are good
count_ret(produced, cap) == IF produced > cap THEN -1 ELSE produced

\* value returned for a null workspace or buffer
null_ret == -1

NullCall(op) ==
    /\ last' = Call(op, null_ret, "null", 0, 0, 0)
    /\ UNCHANGED <<metrics, symbols, iq, payload, chain>>

encode(nul, p, cap) ==
    /\ Ready
    /\ IF nul # "none"
       THEN NullCall("encode")
       ELSE LET sf == deduce_sf(plan_fwd)
                out == lora_encode(p, sf)
                produced == Len(out)
            IN  /\ symbols' = Store(symbols, out)
                /\ last' = Call("encode", count_ret(produced, cap),
                                IF produced > cap THEN "cap" ELSE "ok",
                                Len(p), cap, produced)
                /\ chain' = IF produced > cap THEN NoChain
                            ELSE [stage |-> "enc", p |-> p, n |-> produced]
                /\ UNCHANGED <<metrics, iq, payload>>
    /\ calls' = calls + 1
    /\ UNCHANGED <<parsed, harness>>
    /\ counter' = counter
    /\ UNCHANGED <<plan_fwd, plan_inv, osr, cfg, dws>>

modulate(nul, symbol_count, cap) ==
    /\ Ready
    /\ symbol_count * plan_fwd <= IqBufLen
    /\ IF nul # "none"
       THEN NullCall("modulate")
       ELSE LET sf == deduce_sf(plan_fwd)
                \* the call names no oversampling ratio: one sample per chip
                out == lora_modulate(SubSeq(symbols, 1, symbol_count), sf, 1)
                produced == BufLen(out)
            IN  /\ iq' = StoreSamples(iq, out)
                /\ last' = Call("modulate", count_ret(produced, cap),
                                IF produced > cap THEN "cap" ELSE "ok",
                                symbol_count, cap, produced)
                /\ chain' = IF chain.stage = "enc" /\ chain.n = symbol_count
                               /\ produced <= cap
                            THEN [chain EXCEPT !.stage = "mod", !.n = produced]
                            ELSE NoChain
                /\ UNCHANGED <<metrics, symbols, payload>>
    /\ calls' = calls + 1
    /\ UNCHANGED <<parsed, harness>>
    /\ counter' = counter
    /\ UNCHANGED <<plan_fwd, plan_inv, osr, cfg, dws>>

\* the checksum bytes read most significant first
crc_check_big_endian(bytes) ==
    LET produced == Len(bytes)
    IN  IF produced >= 4
        THEN (256 * bytes[produced - 1] + bytes[produced])
             = sx1272DataChecksum(SubSeq(bytes, 3, produced - 2), produced - 4)
        ELSE FALSE

\* crc_ok as decode computes it from the bytes it produced
crc_check(bytes) ==
    LET produced == Len(bytes)
    IN  IF produced >= 4
        THEN (bytes[produced - 1] + 256 * bytes[produced])
             = sx1272DataChecksum(SubSeq(bytes, 3, produced - 2), produced - 4)
        ELSE FALSE

decode(nul, symbol_count, cap) ==
    /\ Ready
    /\ IF nul # "none"
       THEN NullCall("decode")
       ELSE LET out == lora_decode(SubSeq(symbols, 1, symbol_count))
                produced == Len(out)
            IN  /\ payload' = Store(payload, out)
                /\ metrics' = IF produced > cap THEN metrics
                              ELSE [metrics EXCEPT !.crc_ok = crc_check(out)]
                /\ last' = Call("decode", count_ret(produced, cap),
                                IF produced > cap THEN "cap" ELSE "ok",
                                symbol_count, cap, produced)
                /\ chain' = IF chain.stage \in {"dem", "enc"} /\ chain.n = symbol_count
                               /\ produced <= cap
                            THEN [chain EXCEPT
                                    !.stage = IF chain.stage = "dem" THEN "dec" ELSE "codec",
                                    !.n = produced]
                            ELSE NoChain
                /\ UNCHANGED <<symbols, iq>>
    /\ calls' = calls + 1
    /\ UNCHANGED <<parsed, harness>>
    /\ counter' = counter
    /\ UNCHANGED <<plan_fwd, plan_inv, osr, cfg, dws>>

\* get_last_metrics: a pointer into the workspace, or nullptr (modelled as -1)
get_last_metrics(nul) ==
    /\ last' = Call("get_last_metrics", IF nul = "ws" THEN -1 ELSE 0,
                    IF nul = "ws" THEN "null" ELSE "ok", 0, 0, 0)
    /\ calls' = calls + 1
    /\ UNCHANGED <<parsed, harness>>
    /\ counter' = counter
    /\ UNCHANGED <<plan_fwd, plan_inv, osr, metrics, cfg, symbols, iq, payload, dws, chain>>

\* ---------------------------------------------------------------- detector
\* What a run contributes to the spectrum of a detector window: <<bin, shift>>
\* for a tone at integer bin `bin` moved by `shift` bins, or NoTone when the
\* run carries no tone (zeros, or a chirp that was not multiplied by the
\* downchirp, whose spectrum is flat). `at` is the index of the run's first
\* sample, `base` the index of the window's first sample.
NoTone == <<-1, <<0, 1>>>>

FedTone(x, at, base, N, stride, dechirp, shift) ==
    CASE x.t = "tone" /\ ~dechirp /\ x.o = stride -> <<x.k % N, RAdd(x.r, shift)>>
      [] x.t = "chirp" /\ dechirp /\ x.o = 1 /\ stride = 1 ->
            <<(x.k + x.j + base - at) % N, RAdd(x.r, shift)>>
      [] OTHER -> NoTone

\* number of fed samples base + m*stride, m in 0..N-1, that lie in [at, at+len)
Hits(at, len, base, N, stride) ==
    LET m_lo == Max(0, (at - base + stride - 1) \div stride)
        m_hi == Min(N - 1, (at + len - 1 - base) \div stride)
    IN  Max(0, m_hi - m_lo + 1)

\* <<tone, number of fed samples>> for every run of buffer b
RECURSIVE Fed(_, _, _, _, _, _, _)
Fed(b, at, base, N, stride, dechirp, shift) ==
    IF b = <<>> THEN {}
    ELSE {<<FedTone(Head(b), at, base, N, stride, dechirp, shift), at,
            Hits(at, Head(b).len, base, N, stride)>>}
         \cup Fed(Tail(b), at + Head(b).len, base, N, stride, dechirp, shift)

RECURSIVE SumHits(_)
SumHits(S) ==
    IF S = {} THEN 0
    ELSE LET e == CHOOSE e \in S : TRUE IN e[3] + SumHits(S \ {e})

\* integers nearest to rational x (both neighbours on an exact half)
Nearest(x) ==
    IF (2 * x[1]) % x[2] = 0 /\ ((2 * x[1]) \div x[2]) % 2 = 1
    THEN {RFloor(x), RFloor(x) + 1}
    ELSE {RFloor(RAdd(x, Half))}

\* phase of the peak bin, as a fraction of a turn
Phases == {<<0, 1>>, <<1, 4>>}

\* what detect can report for a window without any tone
FlatPeaks(N) ==
    {[idx |-> 0, findex |-> <<0, 1>>, phase |-> <<0, 1>>],
     [idx |-> 1, findex |-> Half, phase |-> <<1, 4>>]}

\* LoRaDetector::detect over the N samples fed from index `base` on: the
\* strongest bin, the fractional refinement and the phase of that bin
detect(b, base, N, stride, dechirp, shift) ==
    LET fed == {e \in Fed(b, 0, base, N, stride, dechirp, shift) : e[3] > 0 /\ e[1] # NoTone}
        keys == {e[1] : e \in fed}
        weight(kk) == SumHits({e \in fed : e[1] = kk})
        best == {kk \in keys : \A other \in keys : weight(other) <= weight(kk)}
    IN  IF keys = {} THEN FlatPeaks(N)
        ELSE UNION {
               {[idx |-> m % N,
                 findex |-> RSub(RAdd(RInt(kk[1]), kk[2]), RInt(m)),
                 phase |-> ph] : m \in Nearest(RAdd(RInt(kk[1]), kk[2])), ph \in Phases}
               : kk \in best}

\* ---------------------------------------------------------------- estimator
\* phase difference brought into [-1/2, 1/2] turns
RECURSIVE WrapPhase(_)
WrapPhase(d) ==
    IF RLess(Half, d) THEN WrapPhase(RSub(d, RInt(1)))
    ELSE IF RLess(d, RNeg(Half)) THEN WrapPhase(RAdd(d, RInt(1)))
    ELSE d

RECURSIVE SumIndex(_, _)
SumIndex(outs, s) ==
    IF s = 0 THEN <<0, 1>>
    ELSE RAdd(SumIndex(outs, s - 1), RAdd(RInt(outs[s].idx), outs[s].findex))

RECURSIVE PhaseDiff(_, _)
PhaseDiff(outs, s) ==
    IF s <= 1 THEN <<0, 1>>
    ELSE RAdd(PhaseDiff(outs, s - 1), WrapPhase(RSub(outs[s].phase, outs[s - 1].phase)))

\* cfo and time_offset from the detector results of the estimation symbols;
\* osr_t is the oversampling factor of the time offset, avg_t the mean sub-phase
offsets(outs, N, osr_t, avg_t) ==
    LET S == Len(outs)
        avg_index == RDivInt(SumIndex(outs, S), S)
        cfo_coarse == RDivInt(avg_index, N)
        cfo_fine == IF S > 1 THEN RDivInt(RDivInt(PhaseDiff(outs, S), S - 1), N)
                    ELSE <<0, 1>>
        frac == RSub(avg_index, RInt(RFloor(RAdd(avg_index, Half))))
    IN  [cfo |-> RAdd(cfo_coarse, cfo_fine),
         time_offset |-> RSub(avg_t, RMul(frac, RInt(N * osr_t)))]

\* detector results estimate_offsets can obtain for its `count` whole symbols
RECURSIVE EstimateOuts(_, _, _)
EstimateOuts(buf, N, count) ==
    IF count = 0 THEN {<<>>}
    ELSE {Append(o, d) : o \in EstimateOuts(buf, N, count - 1),
                         d \in detect(buf, (count - 1) * N, N, 1, FALSE, <<0, 1>>)}

\* number of whole symbols estimate_offsets works on (0: it returns at once)
estimate_count(nul, sample_count, N) ==
    IF nul # "none" \/ sample_count = 0 THEN 0 ELSE sample_count \div N

\* the <<cfo, time_offset>> pairs estimate_offsets can store for `count` symbols
Estimates(buf, N, count) ==
    {offsets(outs, N, 1, <<0, 1>>) : outs \in EstimateOuts(buf, N, count)}

\* the new estimate added to the one the record held
Estimated_accumulates(m, buf, N, count) ==
    IF count = 0 THEN {m}
    ELSE {[crc_ok |-> m.crc_ok, cfo |-> RAdd(m.cfo, e.cfo),
           time_offset |-> RAdd(m.time_offset, e.time_offset)] :
            e \in Estimates(buf, N, count)}

\* the metrics estimate_offsets can leave behind: m itself when it returns
\* at once, else m with cfo and time_offset replaced
Estimated(m, buf, N, count) ==
    IF count = 0 THEN {m}
    ELSE {[crc_ok |-> m.crc_ok, cfo |-> e.cfo, time_offset |-> e.time_offset] :
            e \in Estimates(buf, N, count)}

estimate_offsets(nul, sample_count) ==
    /\ Ready
    /\ LET N == Pow2(deduce_sf(plan_fwd))
       IN  metrics' \in Estimated(metrics, iq, N, estimate_count(nul, sample_count, N))
    /\ last' = Call("estimate_offsets", 0, IF nul # "none" THEN "null" ELSE "ok",
                    sample_count, 0, 0)
    /\ chain' = chain
    /\ calls' = calls + 1
    /\ UNCHANGED <<parsed, harness>>
    /\ counter' = counter
    /\ UNCHANGED <<plan_fwd, plan_inv, osr, cfg, symbols, iq, payload, dws>>

\* --------------------------------------------------------------- compensator
\* run x multiplied by the rotation, its first sample at index n: a shift of
\* -cfo bins
Rotate(x, n, cfo) ==
    IF x.t = "zero" \/ cfo = <<0, 1>> THEN x
    ELSE [x EXCEPT !.r = RSub(x.r, cfo), !.n = n]

RECURSIVE RotateAll(_, _, _)
RotateAll(b, at, cfo) ==
    IF b = <<>> THEN <<>>
    ELSE <<Rotate(Head(b), at, cfo)>> \o RotateAll(Tail(b), at + Head(b).len, cfo)

\* buffer contents after compensate_offsets over the first sample_count samples
compensated(buf, sample_count, N, cfo, to) ==
    LET rot == RotateAll(Take(buf, 0, sample_count), 0, cfo)
        offset == RRound(to)
        shifted ==
            IF offset > 0 /\ offset < sample_count
            THEN <<ZeroRun(offset)>> \o TakeAt(rot, 0, 0, sample_count - offset)
            ELSE IF offset < 0 /\ -offset < sample_count
            THEN TakeAt(rot, 0, -offset, sample_count) \o <<ZeroRun(-offset)>>
            ELSE rot
    IN  StoreSamples(buf, shifted)

compensate_offsets(nul, sample_count) ==
    /\ Ready
    /\ iq' = IF nul # "none" \/ sample_count = 0 THEN iq
             ELSE compensated(iq, sample_count, Pow2(deduce_sf(plan_fwd)),
                              metrics.cfo, metrics.time_offset)
    /\ last' = Call("compensate_offsets", 0, IF nul # "none" THEN "null" ELSE "ok",
                    sample_count, 0, 0)
    /\ chain' = IF iq' = iq THEN chain ELSE NoChain
    /\ calls' = calls + 1
    /\ UNCHANGED <<parsed, harness>>
    /\ counter' = counter
    /\ UNCHANGED <<plan_fwd, plan_inv, osr, metrics, cfg, symbols, payload, dws>>

\* -------------------------------------------------------------- demodulator
\* the bin stored one-based
to_u16_one_based(idx) == (idx + 1) % 65536

\* static_cast<uint16_t>
to_u16(idx) == idx % 65536

\* first sample of the window of symbol s (0-based) in demodulate
window_base(s, N, t_off, sample_count) ==
    LET base == s * N
    IN  IF t_off > 0
        THEN (IF base + t_off + N <= sample_count THEN base + t_off ELSE base)
        ELSE IF t_off < 0
        THEN (IF -t_off <= base THEN base - (-t_off) ELSE base)
        ELSE base

\* the symbol sequences the detection loop of demodulate can write
RECURSIVE DemodOuts(_, _, _, _, _, _)
DemodOuts(buf, sample_count, N, t_off, cfo, num) ==
    IF num = 0 THEN {<<>>}
    ELSE {Append(o, to_u16(d.idx)) :
            o \in DemodOuts(buf, sample_count, N, t_off, cfo, num - 1),
            d \in detect(buf, window_base(num - 1, N, t_off, sample_count),
                         N, 1, TRUE, RNeg(cfo))}

\* the checks demodulate makes before it touches anything
demod_check(nul, sample_count, N, cap) ==
    IF nul # "none" THEN "null"
    ELSE IF sample_count % N # 0 THEN "shape"
    ELSE IF sample_count \div N > cap THEN "cap"
    ELSE "ok"

\* every call reported as failed
demod_ret_always_fails(check, num) == -1

demod_ret(check, num) == IF check = "ok" THEN num ELSE -1

demodulate(nul, sample_count, cap) ==
    /\ Ready
    /\ LET N == Pow2(deduce_sf(plan_fwd))
           check == demod_check(nul, sample_count, N, cap)
           num == sample_count \div N
           est_samples == Min(sample_count, 2 * N)
       IN  IF check # "ok"
           THEN /\ UNCHANGED <<metrics, symbols>>
                /\ last' = Call("demodulate", demod_ret(check, num), check,
                                sample_count, cap, 0)
                /\ chain' = chain
           ELSE \E m \in Estimated(metrics, iq, N,
                                     estimate_count("none", est_samples, N)) :
                    \E syms \in DemodOuts(iq, sample_count, N,
                                          RRound(m.time_offset), m.cfo, num) :
                        /\ metrics' = m
                        /\ symbols' = Store(symbols, syms)
                        /\ last' = Call("demodulate", demod_ret(check, num), check,
                                        sample_count, cap, Len(syms))
                        /\ chain' = IF chain.stage = "mod" /\ chain.n = sample_count
                                    THEN [chain EXCEPT !.stage = "dem", !.n = num]
                                    ELSE NoChain
    /\ calls' = calls + 1
    /\ UNCHANGED <<parsed, harness>>
    /\ counter' = counter
    /\ UNCHANGED <<plan_fwd, plan_inv, osr, cfg, iq, payload, dws>>

\* ------------------------------------------------- legacy demodulator
\* 0.0f / 0.0f
NaN == <<0, 0>>

lora_demod_init(sf) ==
    /\ dws' = [dws EXCEPT !.N = Pow2(sf)]
    /\ last' = Call("lora_demod_init", 0, "ok", sf, 0, 0)
    /\ calls' = calls + 1
    /\ UNCHANGED <<parsed, harness>>
    /\ counter' = counter + 4
    /\ UNCHANGED <<plan_fwd, plan_inv, osr, metrics, cfg, symbols, iq, payload, chain>>

\* what the callers of lora_demodulate put into the sample buffer: the
\* modulated symbols, multiplied by the downchirp or as they are
prepared(syms, N, o, dechirped) ==
    [s \in 1..Len(syms) |->
        IF dechirped THEN ToneRun(syms[s], o, N * o) ELSE genChirp(syms[s], N, o)]

prepare_samples(syms, o, dechirped) ==
    /\ iq' = StoreSamples(iq, prepared(syms, dws.N, o, dechirped))
    /\ last' = Call("prepare_samples", Len(syms) * dws.N * o, "ok", Len(syms), o, 0)
    /\ chain' = [stage |-> "prep", p |-> syms, n |-> Len(syms) * dws.N * o]
    /\ calls' = calls + 1
    /\ UNCHANGED <<parsed, harness>>
    /\ counter' = counter
    /\ UNCHANGED <<plan_fwd, plan_inv, osr, metrics, cfg, symbols, payload, dws>>

\* estimation loop: for each of the `count` estimation symbols the strongest
\* detector result over the sub-phases t, as <<result, t>>
RECURSIVE LegacyOuts(_, _, _, _)
LegacyOuts(buf, N, o, count) ==
    IF count = 0 THEN {<<>>}
    ELSE UNION {
           {Append(prev, <<d, t>>) :
              prev \in LegacyOuts(buf, N, o, count - 1),
              d \in detect(buf, (count - 1) * N * o + t, N, o, FALSE, <<0, 1>>)}
           : t \in 0..(o - 1)}

RECURSIVE SumT(_, _)
SumT(outs, s) == IF s = 0 THEN 0 ELSE SumT(outs, s - 1) + outs[s][2]

\* ws->metrics.cfo and ws->metrics.time_offset after the estimation loop
legacy_offsets(outs, N, o) ==
    IF outs = <<>> THEN [cfo |-> NaN, time_offset |-> NaN]
    ELSE offsets([s \in 1..Len(outs) |-> outs[s][1]], N, o,
                 RDivInt(RInt(SumT(outs, Len(outs))), Len(outs)))

\* the window moved by the time offset whether or not it still fits
legacy_base_unguarded(s, step, t_off, sample_count) == s * step + t_off

\* first sample of the window of symbol s (0-based) in lora_demodulate
legacy_base(s, step, t_off, sample_count) ==
    LET base == s * step
    IN  IF t_off > 0
        THEN (IF base + t_off + step <= sample_count THEN base + t_off ELSE base)
        ELSE IF t_off < 0
        THEN (IF -t_off <= base THEN base - (-t_off) ELSE base)
        ELSE base

RECURSIVE LegacySyms(_, _, _, _, _, _, _)
LegacySyms(buf, sample_count, N, o, t_off, cfo, num) ==
    IF num = 0 THEN {<<>>}
    ELSE {Append(prev, to_u16(d.idx)) :
            prev \in LegacySyms(buf, sample_count, N, o, t_off, cfo, num - 1),
            d \in detect(buf, legacy_base(num - 1, N * o, t_off, sample_count),
                         N, o, FALSE, RNeg(cfo))}

lora_demodulate(sample_count, o) ==
    /\ dws.N # 0
    /\ LET N == dws.N
           num_symbols == sample_count \div (N * o)
           est_syms == Min(num_symbols, 2)
       IN  \E outs \in LegacyOuts(iq, N, o, est_syms) :
             LET m == legacy_offsets(outs, N, o)
             IN  \E syms \in (IF num_symbols = 0 THEN {<<>>}
                              ELSE LegacySyms(iq, sample_count, N, o,
                                              RRound(m.time_offset), m.cfo, num_symbols)) :
                   /\ dws' = [dws EXCEPT !.metrics = [crc_ok |-> dws.metrics.crc_ok,
                                                      cfo |-> m.cfo,
                                                      time_offset |-> m.time_offset]]
                   /\ symbols' = Store(symbols, syms)
                   /\ last' = Call("lora_demodulate", num_symbols, "ok",
                                   sample_count, o, Len(syms))
    /\ chain' = IF chain.stage = "prep" /\ chain.n = sample_count
                THEN [chain EXCEPT !.stage = "ldem", !.n = sample_count \div (dws.N * o)]
                ELSE NoChain
    /\ calls' = calls + 1
    /\ UNCHANGED <<parsed, harness>>
    /\ counter' = counter
    /\ UNCHANGED <<plan_fwd, plan_inv, osr, metrics, cfg, iq, payload>>

\* ------------------------------------------------------------- LoRaWAN shim
\* CRC-32 (reflected, polynomial 0xEDB88320) on a register kept as <<high
\* half, low half>> of 16 bits each
\* one shift of the register
crc32_shift(crc) ==
    LET hi == crc[1] \div 2
        lo == (crc[2] \div 2) + 32768 * (crc[1] % 2)
    IN  IF crc[2] % 2 = 1
        THEN <<BitXor(hi, 60856, 16), BitXor(lo, 33568, 16)>>
        ELSE <<hi, lo>>

RECURSIVE crc32_bits(_, _)
crc32_bits(crc, j) == IF j = 0 THEN crc ELSE crc32_shift(crc32_bits(crc, j - 1))

\* the register after the first len bytes of data; the register of the
\* bytes before is evaluated first, which keeps the evaluation shallow
RECURSIVE crc32_reg(_, _)
crc32_reg(data, len) ==
    IF len = 0 THEN <<65535, 65535>>
    ELSE LET crc == crc32_reg(data, len - 1)
         IN  IF crc[1] >= 0
             THEN crc32_bits(<<crc[1], BitXor(crc[2], data[len], 16)>>, 8)
             ELSE crc

crc32(data, len) ==
    LET crc == crc32_reg(data, len) IN <<65535 - crc[1], 65535 - crc[2]>>

compute_mic(data, len) == crc32(data, len)

\* the MIC of the bytes pushed after them, low byte first
with_mic(body) ==
    LET mic == compute_mic(body, Len(body))
    IN  body \o <<mic[2] % 256, mic[2] \div 256, mic[1] % 256, mic[1] \div 256>>

\* the bytes build_frame serialises for frame f, the MIC last
frame_bytes(f) ==
    LET mhdr == ((f.mtype * 32) % 256) + (f.major % 4)
        a == f.devaddr
        fctrl == (f.fctrl - (f.fctrl % 16)) + (Len(f.fopts) % 16)
        body == <<mhdr, a % 256, (a \div 256) % 256, (a \div 65536) % 256,
                  (a \div 16777216) % 256, fctrl, f.fcnt % 256, (f.fcnt \div 256) % 256>>
                \o f.fopts \o f.payload
    IN  with_mic(body)

\* operator new calls of build_frame: the reserve of 16 + payload bytes, and,
\* with more than 4 FOpts bytes, one or two regrowths of the vector (how far
\* it grows each time is up to the library)
build_frame_news(f) == IF Len(f.fopts) <= 4 THEN {1} ELSE {2, 3}

build_frame(nul, f, cap) ==
    /\ Ready
    /\ IF nul # "none"
       THEN NullCall("build_frame") /\ counter' = counter
       ELSE LET bytes == frame_bytes(f)
                out == lora_encode(bytes, deduce_sf(plan_fwd))
                produced == Len(out)
            IN  /\ symbols' = Store(symbols, out)
                /\ last' = Call("build_frame", count_ret(produced, cap),
                                IF produced > cap THEN "cap" ELSE "ok",
                                Len(bytes), cap, produced)
                /\ chain' = IF produced > cap THEN NoChain
                            ELSE [stage |-> "frame", p |-> f, n |-> produced]
                /\ counter' \in {counter + k : k \in build_frame_news(f)}
                /\ UNCHANGED <<metrics, iq, payload>>
    /\ calls' = calls + 1
    /\ UNCHANGED <<parsed, harness>>
    /\ UNCHANGED <<plan_fwd, plan_inv, osr, cfg, dws>>

\* the MIC mismatch reported with the code of a short frame
mic_ret_as_length == -1

\* value parse_frame returns when the MIC does not match
mic_ret == -2

\* what parse_frame makes of the decoded bytes: the value returned, why, and
\* the caller's frame afterwards (prev: the frame before the call)
parse_bytes(bytes, prev) ==
    LET len == Len(bytes)
        mic == <<bytes[len - 1] + 256 * bytes[len], bytes[len - 3] + 256 * bytes[len - 2]>>
        fopts_len == bytes[6] % 16
        header == [prev EXCEPT !.mtype = bytes[1] \div 32,
                               !.major = bytes[1] % 4,
                               !.devaddr = bytes[2] + 256 * bytes[3] + 65536 * bytes[4]
                                           + 16777216 * bytes[5],
                               !.fctrl = bytes[6],
                               !.fcnt = bytes[7] + 256 * bytes[8]]
    IN  IF len < 12 THEN [ret |-> -1, cause |-> "short", frame |-> prev]
        ELSE IF mic # compute_mic(bytes, len - 4)
        THEN [ret |-> mic_ret, cause |-> "mic", frame |-> prev]
        ELSE IF 8 + fopts_len > len - 4
        THEN [ret |-> -1, cause |-> "fopts", frame |-> header]
        ELSE [ret |-> len - 4 - (8 + fopts_len), cause |-> "ok",
              frame |-> [header EXCEPT !.fopts = SubSeq(bytes, 9, 8 + fopts_len),
                                       !.payload = SubSeq(bytes, 9 + fopts_len, len - 4)]]

\* operator new calls of parse_frame: the byte vector, and each vector of
\* the caller's frame that has to grow (its capacity taken to be its size)
parse_frame_news(r, prev) ==
    1 + (IF r.cause = "ok" /\ Len(r.frame.fopts) > Len(prev.fopts) THEN 1 ELSE 0)
      + (IF r.cause = "ok" /\ Len(r.frame.payload) > Len(prev.payload) THEN 1 ELSE 0)

\* the whole of parse_frame; its byte vector holds symbol_count / 2 + 8 bytes,
\* so the decode inside never fails for capacity
parse_frame(nul, symbol_count) ==
    /\ Ready
    /\ IF nul # "none"
       THEN NullCall("parse_frame") /\ UNCHANGED <<counter, parsed>>
       ELSE LET bytes == lora_decode(SubSeq(symbols, 1, symbol_count))
                r == parse_bytes(bytes, parsed)
            IN  /\ metrics' = [metrics EXCEPT !.crc_ok = crc_check(bytes)]
                /\ parsed' = r.frame
                /\ last' = Call("parse_frame", r.ret, r.cause, symbol_count, 0, 0)
                /\ chain' = IF chain.stage = "frame" /\ chain.n = symbol_count
                            THEN [chain EXCEPT !.stage = "parsed"]
                            ELSE NoChain
                /\ counter' = counter + parse_frame_news(r, parsed)
                /\ UNCHANGED <<symbols, iq, payload>>
    /\ calls' = calls + 1
    /\ UNCHANGED <<plan_fwd, plan_inv, osr, cfg, dws, harness>>

\* ------------------------------------------------------------ the callers
Budget == calls < MaxCalls

\* sample counts a caller hands over: multiples of half a symbol
Counts(N) == {(h * N) \div 2 : h \in 0..4}

\* any caller: every operation, any arguments, in any order; a call with a
\* null pointer is made with each pointer in turn
Next ==
    \/ \E c \in ParamsSet : Budget /\ init("none", c)
    \/ \E nul \in {"ws", "cfg"} : Budget /\ init(nul, BaseParams)
    \/ \E nul \in {"none", "ws"} : Budget /\ reset(nul)
    \/ \E p \in Payloads, cap \in {0, SymBufLen} : Budget /\ encode("none", p, cap)
    \/ \E nul \in {"ws", "in", "out"} : Budget /\ encode(nul, <<>>, SymBufLen)
    \/ \E n \in 0..2, cap \in {plan_fwd, IqBufLen} : Budget /\ modulate("none", n, cap)
    \/ \E nul \in {"ws", "in", "out"} : Budget /\ modulate(nul, 1, IqBufLen)
    \/ \E nul \in {"none", "ws", "in"}, n \in Counts(plan_fwd) :
          Budget /\ estimate_offsets(nul, n)
    \/ \E nul \in {"none", "ws", "in"}, n \in Counts(plan_fwd) :
          Budget /\ compensate_offsets(nul, n)
    \/ \E n \in Counts(plan_fwd), cap \in {1, SymBufLen} :
          Budget /\ demodulate("none", n, cap)
    \/ \E nul \in {"ws", "in", "out"} : Budget /\ demodulate(nul, plan_fwd, SymBufLen)
    \/ \E n \in 0..SymBufLen, cap \in {1, PayBufLen} : Budget /\ decode("none", n, cap)
    \/ \E nul \in {"ws", "in", "out"} : Budget /\ decode(nul, 2, PayBufLen)
    \/ \E nul \in {"none", "ws"} : Budget /\ get_last_metrics(nul)

Spec == Init /\ [][Next]_vars

\* the transmit-receive chain of the round-trip test: init, encode, modulate,
\* demodulate, decode, each stage handed what the stage before returned
ChainParams ==
    {[BaseParams EXCEPT !.sf = v] : v \in {7, 8, 12}}
    \cup {[BaseParams EXCEPT !.osr = 2], [BaseParams EXCEPT !.cr = 4]}

ChainBytes == {0, 222, 173, 255}

ChainPayloads == UNION {[1..n -> ChainBytes] : n \in 1..MaxPayloadLen}

ChainNext ==
    \/ \E c \in ChainParams : calls = 0 /\ init("none", c)
    \/ \E p \in ChainPayloads : last.op = "init" /\ encode("none", p, SymBufLen)
    \/ chain.stage = "enc" /\ last.op = "encode" /\ modulate("none", chain.n, IqBufLen)
    \/ chain.stage = "mod" /\ last.op = "modulate" /\ demodulate("none", chain.n, SymBufLen)
    \/ chain.stage = "dem" /\ last.op = "demodulate" /\ decode("none", chain.n, PayBufLen)
    \* the codec regression test: decode what encode returned
    \/ chain.stage = "enc" /\ last.op = "encode" /\ decode("none", chain.n, PayBufLen)

ChainSpec == Init /\ [][ChainNext]_vars

\* the callers of the legacy demodulator: set it up, fill the sample buffer,
\* demodulate
LegacySymbols(N) == {0, 5, N - 1}

LegacyInputs(N) == UNION {[1..n -> LegacySymbols(N)] : n \in 0..MaxPayloadLen}

LegacyNext ==
    \/ \E sf \in {7, 8} : calls = 0 /\ lora_demod_init(sf)
    \/ \E syms \in LegacyInputs(dws.N), o \in {1, 2}, d \in BOOLEAN :
          last.op = "lora_demod_init" /\ prepare_samples(syms, o, d)
    \/ \E h \in 0..(2 * MaxPayloadLen), o \in {1, 2} :
          last.op = "prepare_samples" /\ lora_demodulate((h * dws.N * o) \div 2, o)

LegacySpec == Init /\ [][LegacyNext]_vars

\* a caller of the codec alone, with buffers that hold a whole frame: two
\* header bytes, the data, two checksum bytes
FrameBufLen == MaxPayloadLen + 4

CodecInit ==
    /\ Init!1 /\ Init!2 /\ Init!3 /\ Init!4 /\ Init!5
    /\ symbols = [i \in 1..(2 * FrameBufLen) |-> 0]
    /\ iq = <<ZeroRun(IqBufLen)>>
    /\ payload = [i \in 1..FrameBufLen |-> 0]
    /\ Init!9 /\ Init!10 /\ Init!11 /\ Init!12 /\ Init!13 /\ Init!14 /\ Init!15

CodecBytes == {0, 222}

\* data followed by its checksum, low byte first
Framed(data) ==
    LET c == sx1272DataChecksum(data, Len(data))
    IN  <<1, 2>> \o data \o <<c % 256, c \div 256>>

\* the same with the checksum bytes exchanged, or the low one off by one
Misframed(data) ==
    LET c == sx1272DataChecksum(data, Len(data))
    IN  { <<1, 2>> \o data \o <<c \div 256, c % 256>>,
          <<1, 2>> \o data \o <<(c + 1) % 256, c \div 256>> }

CodecData == UNION {[1..n -> CodecBytes] : n \in 0..MaxPayloadLen}

CodecPayloads ==
    {Framed(d) : d \in CodecData}
    \cup UNION {Misframed(d) : d \in CodecData}
    \cup UNION {[1..n -> CodecBytes] : n \in 1..3}

CodecNext ==
    \/ \E c \in {BaseParams, [BaseParams EXCEPT !.sf = 8]} : calls = 0 /\ init("none", c)
    \/ \E p \in CodecPayloads : last.op = "init" /\ encode("none", p, 2 * FrameBufLen)
    \/ \E n \in 0..chain.n : last.op = "encode" /\ decode("none", n, FrameBufLen)

CodecSpec == CodecInit /\ [][CodecNext]_vars

\* a caller of the offset functions: modulate a payload, estimate over some
\* whole symbols of it, compensate some of the buffer
OffsetPayloads == UNION {[1..n -> CodecBytes] : n \in 1..MaxPayloadLen}

OffsetNext ==
    \/ \E c \in {BaseParams, [BaseParams EXCEPT !.sf = 8]} : calls = 0 /\ init("none", c)
    \/ \E p \in OffsetPayloads : last.op = "init" /\ encode("none", p, SymBufLen)
    \/ last.op = "encode" /\ modulate("none", chain.n, IqBufLen)
    \/ \E k \in 1..3 : last.op = "modulate" /\ estimate_offsets("none", k * plan_fwd)
    \/ \E h \in 1..3 :
          last.op = "estimate_offsets" /\ compensate_offsets("none", (h * plan_fwd) \div 2)

OffsetSpec == Init /\ [][OffsetNext]_vars

\* the caller of the LoRaWAN shim: buffers that hold a whole frame. devaddr
\* stays below 2^31, the largest integer of the checker.
\* the frame of the round-trip test
TestFrame ==
    [mtype |-> 2, major |-> 0, devaddr |-> 16909060, fctrl |-> 0, fcnt |-> 1,
     fopts |-> <<>>, payload |-> <<222>>]

\* the frames handed to build_frame: the test frame with each payload and
\* without, with one and with sixteen FOpts bytes; and with other header fields
Frames ==
    {[TestFrame EXCEPT !.payload = p, !.fopts = o] : p \in Payloads, o \in {<<>>, <<7>>}}
    \cup {[TestFrame EXCEPT !.mtype = 4, !.fcnt = 258, !.major = m, !.fctrl = c] :
             m \in {0, 5}, c \in {0, 165}}
    \cup {[TestFrame EXCEPT !.fopts = [i \in 1..16 |-> 7]]}

WanBufLen == 29 + MaxPayloadLen

WanInit ==
    /\ Init!1 /\ Init!2 /\ Init!3 /\ Init!4 /\ Init!5
    /\ symbols = [i \in 1..(2 * WanBufLen) |-> 0]
    /\ iq = <<ZeroRun(IqBufLen)>>
    /\ payload = [i \in 1..WanBufLen |-> 0]
    /\ Init!9 /\ Init!10 /\ Init!11 /\ Init!12 /\ Init!13 /\ Init!14 /\ Init!15

\* byte i (from 1) of w replaced by b
WithByte(w, i, b) == [w EXCEPT ![i] = b]

\* frames as a sender other than build_frame may put them on the air: the
\* test frame whole and cut short, with one MIC byte changed, and a frame
\* whose FCtrl announces five FOpts bytes that are not there
WireFrames ==
    LET good == frame_bytes(TestFrame)
        n == Len(good)
    IN  {good, SubSeq(good, 1, 11), SubSeq(good, 1, 4),
         with_mic(<<64, 4, 3, 2, 1, 5, 1, 0>>)}
        \cup {WithByte(good, i, (good[i] + 1) % 256) : i \in (n - 3)..n}

WanNext ==
    \/ \E c \in {BaseParams, [BaseParams EXCEPT !.sf = 8]} : calls = 0 /\ init("none", c)
    \/ \E f \in Frames, cap \in {2, 2 * WanBufLen} :
          last.op = "init" /\ build_frame("none", f, cap)
    \/ \E nul \in {"ws", "out"} :
          last.op = "init" /\ build_frame(nul, TestFrame, 2 * WanBufLen)
    \/ \E w \in WireFrames :
          /\ last.op = "init" \/ chain.stage = "parsed"
          /\ encode("none", w, 2 * WanBufLen)
    \/ chain.stage \in {"frame", "enc"} /\ parse_frame("none", chain.n)
    \/ \E nul \in {"ws", "in"} : last.op = "build_frame" /\ chain.stage = "frame"
                                /\ parse_frame(nul, chain.n)

WanSpec == WanInit /\ [][WanNext]_vars

\* the Hamming cross check: encode a nibble, decode the codeword as it is
\* and with each single bit flipped
Harness(fn, in, res) == [fn |-> fn, in |-> in, res |-> res]

CodecStep(h) ==
    /\ harness' = h
    /\ calls' = calls + 1
    /\ UNCHANGED <<plan_fwd, plan_inv, osr, metrics, cfg, symbols, iq, payload, dws, last,
                   chain, counter, parsed>>

\* two neighbouring bits flipped
flip_two_bits(word, bit) == BitXor(word, Pow2(bit) + Pow2((bit + 1) % 8), 8)

\* word ^ (1u << bit)
flip_bit(word, bit) == BitXor(word, Pow2(bit), 8)

verify_encode(val) ==
    CodecStep(Harness("encodeHamming84sx", <<val>>, <<encodeHamming84sx(val)>>))

\* in: the nibble and the flipped bit (-1: none); res: word decoded, nibble, err, bad
verify_decode(val, bit) ==
    LET word == IF bit = -1 THEN harness.res[1] ELSE flip_bit(harness.res[1], bit)
        dec == decodeHamming84sx(word)
    IN  CodecStep(Harness("decodeHamming84sx", <<val, bit>>,
                          <<word, dec.nib, dec.err, dec.bad>>))

HammingNext ==
    \/ \E val \in 0..15 : calls = 0 /\ verify_encode(val)
    \/ harness.fn = "encodeHamming84sx" /\ verify_decode(harness.in[1], -1)
    \/ \E bit \in 0..7 :
          harness.fn = "encodeHamming84sx" /\ verify_decode(harness.in[1], bit)

HammingSpec == Init /\ [][HammingNext]_vars

\* the vector dump: codewords, a whole number of blocks of sf, interleaved
\* into symbols and deinterleaved again
\* symbols of the first blocks only
symbol_count_short(cw_count, sf, rdd) == ((cw_count \div sf) - 1) * (4 + rdd)

symbol_count(cw_count, sf, rdd) == (cw_count \div sf) * (4 + rdd)

\* codeword arrays: one bit set in one codeword, every bit set, and two
\* blocks of mixed codewords
Codewords(sf, rdd) ==
    {[i \in 1..sf |-> IF i = r THEN Pow2(c) ELSE 0] : r \in 1..sf, c \in 0..(3 + rdd)}
    \cup {[i \in 1..sf |-> Pow2(4 + rdd) - 1]}
    \cup {[i \in 1..(2 * sf) |-> (a * i + i \div 3) % Pow2(4 + rdd)] : a \in {7, 37}}

interleave(X, sf, rdd) ==
    CodecStep(Harness("diagonalInterleaveSx", <<X, sf, rdd>>,
                      <<diagonalInterleaveSx(X, Len(X), sf, rdd)>>))

deinterleave ==
    LET X == harness.in[1]
        sf == harness.in[2]
        rdd == harness.in[3]
        post_interleave == harness.res[1]
    IN  CodecStep(Harness("diagonalDeterleaveSx", harness.in,
                          <<post_interleave,
                            diagonalDeterleaveSx(post_interleave,
                                                 symbol_count(Len(X), sf, rdd), sf, rdd)>>))

InterleaverNext ==
    \/ \E sf \in 7..12, rdd \in 1..4 : \E X \in Codewords(sf, rdd) :
          calls = 0 /\ interleave(X, sf, rdd)
    \/ harness.fn = "diagonalInterleaveSx" /\ deinterleave

InterleaverSpec == Init /\ [][InterleaverNext]_vars

\* both families of callers
RxNext == ChainNext \/ LegacyNext

RxSpec == Init /\ [][RxNext]_vars

\* ------------------------------------------------------------------ claims
ApiOps == {"encode", "modulate", "demodulate", "decode"}

\* C1: after init, encode, modulate, demodulate and decode with the same
\* parameters, decode returns exactly the bytes of the payload that went in,
\* and crc_ok is set when the payload carries a valid CRC block.
ChainRecoversPayload ==
    chain.stage = "dec" =>
        /\ last.ret = Len(chain.p)
        /\ SubSeq(payload, 1, Len(chain.p)) = chain.p
        /\ (crc_check(chain.p) => metrics.crc_ok)

DemodulatedSymbolsInRange ==
    /\ last.op = "demodulate" /\ last.cause = "ok" =>
          \A i \in 1..last.ret : symbols[i] \in 0..(plan_fwd - 1)
    /\ last.op = "lora_demodulate" =>
          \A i \in 1..last.ret : symbols[i] \in 0..(dws.N - 1)

TopBinDemodulated ==
    /\ last.op = "demodulate"
    /\ last.cause = "ok"
    /\ last.ret = 2
    /\ symbols[1] = plan_fwd - 1
    /\ symbols[2] = plan_fwd - 1

\* C5: a successful modulate returns symbol_count * N * osr for the osr given
\* to init, and that is the number of samples it wrote from iq[0] on.
ModulateCountOversampled ==
    last.op = "modulate" /\ last.cause = "ok" =>
        /\ last.ret = last.n * plan_fwd * cfg.osr
        /\ last.wrote = last.ret

\* C6: with sample_count = k * N * osr, demodulate returns k and writes k
\* symbols when symbol_cap >= k, and fails for capacity when symbol_cap < k.
DemodulateCountIsK ==
    last.op = "demodulate" /\ last.cause # "null"
    /\ last.n % (plan_fwd * cfg.osr) = 0 =>
        LET k == last.n \div (plan_fwd * cfg.osr)
        IN  IF last.cap >= k
            THEN last.ret = k /\ last.wrote = k
            ELSE last.cause = "cap"

\* C7: demodulate fails for shape whenever sample_count is not a multiple of
\* N * osr, for every osr.
DemodulateRejectsPartSymbol ==
    last.op = "demodulate" /\ last.cause # "null"
    /\ last.n % (plan_fwd * cfg.osr) # 0 =>
        last.cause = "shape"

\* C8: init returns 0 only for sf in [7,12], osr >= 1, a valid bw and cr in
\* [1,4]; for anything else it returns a negative value.
InitValidatesParams ==
    last.op = "init" /\ last.ret = 0 => ValidParams(cfg)

\* C9: the value encode, modulate, demodulate and decode return for too small
\* an output capacity differs from the one they return for a null argument.
CapacityCodeDiffersFromNull ==
    last.op \in ApiOps /\ last.cause = "cap" => last.ret # null_ret

\* C10: a call with a null workspace or buffer modifies no workspace field and
\* no caller buffer, and init, encode, modulate, demodulate and decode return
\* a negative value for it.
NullCallsChangeNothing ==
    [][last'.cause = "null" =>
          /\ UNCHANGED <<plan_fwd, plan_inv, osr, metrics, cfg, symbols, iq, payload, dws>>
          /\ (last'.op \in ApiOps \cup {"init"} => last'.ret < 0)]_vars

NullCallOnUsedWorkspace ==
    /\ last.cause = "null"
    /\ last.op = "reset"
    /\ metrics # ZeroMetrics

\* C11: decode fails for shape whenever symbol_count is not a multiple of
\* 4 + rdd, rdd the coding rate of the workspace, and returns a byte count
\* only when symbol_count is such a multiple.
DecodeRejectsPartBlock ==
    last.op = "decode" /\ last.cause # "null"
        => /\ last.n % (4 + cfg.cr) # 0 => last.cause = "shape"
           /\ last.ret >= 0 => last.n % (4 + cfg.cr) = 0

\* C12: after every decode that returns produced >= 0, crc_ok is true exactly
\* when produced >= 4 and the last two decoded bytes, low byte first, are the
\* sx1272DataChecksum of the produced - 4 bytes from offset 2; with fewer than
\* 4 bytes crc_ok is false; whatever crc_ok is, decode returns produced.
CrcOkAfterDecode ==
    last.op = "decode" /\ last.cause \notin {"null", "cap"}
        => LET produced == last.wrote
           IN  /\ last.ret = produced
               /\ last.ret >= 0
               /\ produced < 4 => ~metrics.crc_ok
               /\ metrics.crc_ok
                    <=> /\ produced >= 4
                        /\ payload[produced - 1] + 256 * payload[produced]
                             = sx1272DataChecksum(SubSeq(payload, 3, produced - 2),
                                                  produced - 4)

\* a decoded frame of data and checksum whose checksum matched
DecodedFrameCrcOk ==
    /\ last.op = "decode" /\ last.cause = "ok"
    /\ last.ret > 4
    /\ metrics.crc_ok
    /\ payload[last.ret - 1] # payload[last.ret]

\* C13: the whole metrics record reflects the most recent demodulate, decode,
\* estimate_offsets or reset: every demodulate and every decode overwrites
\* it, so a non-zero cfo or time_offset left by an earlier call does not
\* survive a decode, and a crc_ok left by an earlier decode does not survive
\* a demodulate.
MetricsOverwritten ==
    [][/\ last'.op = "decode" /\ last'.cause = "ok"
            => /\ metrics.cfo # <<0, 1>> => metrics'.cfo # metrics.cfo
               /\ metrics.time_offset # <<0, 1>>
                    => metrics'.time_offset # metrics.time_offset
       /\ last'.op = "demodulate" /\ last'.cause = "ok"
            => (metrics.crc_ok => ~metrics'.crc_ok)]_vars

\* C14: after a successful init the workspace holds the configuration it was
\* given: ws->osr equals cfg->osr and the spreading factor derived from the
\* workspace equals cfg->sf, and both stay so until the next init.
ParamsCopiedAtInit ==
    Ready => /\ osr = cfg.osr
             /\ deduce_sf(plan_fwd) = cfg.sf

\* C15: reset sets metrics to crc_ok = false, cfo = 0, time_offset = 0 and
\* leaves the plans, osr and the contents of the caller's buffers unchanged;
\* a successful init leaves metrics zeroed too.
ResetFrame ==
    [][/\ last'.op = "reset" /\ last'.cause = "ok"
            => /\ metrics' = ZeroMetrics
               /\ UNCHANGED <<plan_fwd, plan_inv, osr, symbols, iq, payload>>
       /\ last'.op = "init" /\ last'.cause = "ok"
            => metrics' = ZeroMetrics]_vars

\* a reset of a workspace whose sample buffer holds modulated symbols
ResetAfterModulate ==
    /\ last.op = "reset" /\ last.cause = "ok"
    /\ plan_fwd # 0
    /\ iq[1].t = "chirp"
    /\ metrics = ZeroMetrics

\* C16: with fewer than two whole symbols in the input, demodulate and
\* lora_demodulate succeed and return the number of whole symbols, the
\* estimate is made without a division by zero (both offsets are numbers),
\* and with one symbol cfo is avg_index / N with no phase-difference term.
FewSymbolsCoarseOnly ==
    /\ last.op = "demodulate" /\ last.cause = "ok" /\ last.n < 2 * plan_fwd
         => /\ last.ret = last.n \div plan_fwd
            /\ metrics.cfo # NaN /\ metrics.time_offset # NaN
            /\ last.ret = 1
                 => metrics.cfo \in
                      {RDivInt(RAdd(RInt(d.idx), d.findex), plan_fwd) :
                         d \in detect(iq, 0, plan_fwd, 1, FALSE, <<0, 1>>)}
    /\ last.op = "lora_demodulate" /\ last.n < 2 * dws.N * last.cap
         => /\ last.ret = last.n \div (dws.N * last.cap)
            /\ dws.metrics.cfo # NaN /\ dws.metrics.time_offset # NaN
            /\ last.ret = 1
                 => dws.metrics.cfo \in
                      UNION {{RDivInt(RAdd(RInt(d.idx), d.findex), dws.N) :
                                d \in detect(iq, t, dws.N, last.cap, FALSE, <<0, 1>>)}
                             : t \in 0..(last.cap - 1)}

\* C17: estimate_offsets forms its estimate from at most the first
\* min(num_symbols, 2) symbols of its input, called directly or from
\* demodulate: the cfo and time_offset it stores are among those the first
\* two symbols alone can give.
EstimatorWindow ==
    last.op \in {"estimate_offsets", "demodulate"} /\ last.cause = "ok"
    /\ last.n >= plan_fwd
        => <<metrics.cfo, metrics.time_offset>> \in
             {<<e.cfo, e.time_offset>> :
                e \in Estimates(iq, plan_fwd, Min(last.n \div plan_fwd, 2))}

\* C18: with d = round(time_offset) and r the rotated input, after
\* compensate_offsets over sample_count samples: for d > 0 out[n] = r[n - d]
\* for n >= d and 0 below d; for d < 0 out[n] = r[n + |d|] while
\* n + |d| < sample_count and 0 in the last |d| positions; for d = 0 out = r.
\* For |d| >= sample_count every position is vacated, so all are zero.
CompensateShift ==
    [][last'.op = "compensate_offsets" /\ last'.cause = "ok" /\ last'.n > 0
        => LET count == last'.n
               d == RRound(metrics.time_offset)
               r == RotateAll(Take(iq, 0, count), 0, metrics.cfo)
               out == IF d > 0
                      THEN <<ZeroRun(Min(d, count))>> \o TakeAt(r, 0, 0, count - d)
                      ELSE IF d < 0
                      THEN TakeAt(r, 0, -d, count) \o <<ZeroRun(Min(-d, count))>>
                      ELSE r
           IN  Take(iq', 0, count) = Norm(out)]_vars

\* C19: the samples demodulate feeds to the detector for symbol s are samples
\* s*N .. s*N+N-1 of the buffer that estimate_offsets and compensate_offsets
\* would produce from iq: the same source samples with the same rotation;
\* a positive rounded time_offset never moves a window to later samples and
\* a negative one never to earlier samples.
InlineEqualsSeparatePass ==
    last.op = "demodulate" /\ last.cause = "ok"
        => LET N == plan_fwd
               d == RRound(metrics.time_offset)
               separate == compensated(iq, last.n, N, metrics.cfo, metrics.time_offset)
           IN  \A s \in 0..(last.ret - 1) :
                 LET base == window_base(s, N, d, last.n)
                 IN  /\ Norm(RotateAll(TakeAt(iq, 0, base, base + N), s * N, metrics.cfo))
                          = Take(separate, s * N, s * N + N)
                     /\ d > 0 => base <= s * N
                     /\ d < 0 => base >= s * N

\* C20: with a counter incremented by every operator new and new[], the
\* counter does not move across modulate or demodulate once init has
\* returned, nor across any other function of the core: encode, decode,
\* estimate_offsets, compensate_offsets, build_frame, parse_frame.
NoAllocationAfterInit ==
    [][last'.op \in {"modulate", "demodulate", "lora_demodulate", "encode", "decode",
                     "estimate_offsets", "compensate_offsets", "build_frame",
                     "parse_frame"}
          => counter' = counter]_vars

InterleaverInvolution ==
    /\ harness.fn \in {"diagonalInterleaveSx", "diagonalDeterleaveSx"}
         => Len(harness.res[1])
              = (Len(harness.in[1]) \div harness.in[2]) * (4 + harness.in[3])
    /\ harness.fn = "diagonalDeterleaveSx" => harness.res[2] = harness.in[1]

\* two blocks at sf = 12 with rdd = 1 taken through both directions
TwoBlocksDeinterleaved ==
    /\ harness.fn = "diagonalDeterleaveSx"
    /\ harness.in[2] = 12 /\ harness.in[3] = 1
    /\ Len(harness.in[1]) = 24
    /\ Len(harness.res[1]) = 10
    /\ harness.res[1] # SubSeq(harness.in[1], 1, 10)

\* the bytes the last parse_frame call decoded
ParsedBytes == lora_decode(SubSeq(symbols, 1, last.n))

\* C23: LoRaWAN frame round trip: after parse_frame has run on the symbols
\* build_frame produced for a frame f, it has returned the payload length
\* and the caller's frame equals f in every field
FrameRoundTrip ==
    chain.stage = "parsed" =>
        /\ last.ret = Len(chain.p.payload)
        /\ parsed = chain.p

\* C24: MIC mismatch is a distinct error: when the four MIC bytes of a frame
\* of at least 12 bytes differ from the CRC-32 of the bytes before them,
\* parse_frame returns a negative code that it returns for no short frame,
\* no overlong FOpts and no null argument
MicMismatchDistinct ==
    last.op = "parse_frame" =>
        LET bytes == ParsedBytes
            len == Len(bytes)
            mic == <<bytes[len - 1] + 256 * bytes[len],
                     bytes[len - 3] + 256 * bytes[len - 2]>>
            shape_rets == {-1}
        IN  /\ last.cause \in {"null", "short", "fopts"} => last.ret \in shape_rets
            /\ last.cause # "null" /\ len >= 12 /\ mic # compute_mic(bytes, len - 4)
                 => last.ret < 0 /\ last.ret \notin shape_rets

MicMismatchReported ==
    /\ last.op = "parse_frame" /\ last.cause = "mic"
    /\ Len(ParsedBytes) >= 12
    /\ parsed # NoFrame

\* C25: FCtrl/FOpts invariant: in the frame build_frame has serialised, the
\* low nibble of the FCtrl byte equals the number of FOpts bytes of the frame
FCtrlCountsFOpts ==
    chain.stage = "frame" =>
        lora_decode(SubSeq(symbols, 1, chain.n))[6] % 16 = Len(chain.p.fopts)

\* C29: failed parse_frame leaves the output frame untouched: a parse_frame
\* call that returns a negative value leaves every field of the caller's frame
\* as it was before the call
FailedParseKeepsFrame ==
    [][last'.op = "parse_frame" /\ last'.ret < 0 => parsed' = parsed]_vars

\* C26: capacity is respected by writes: a call of encode, modulate or decode
\* leaves every element of its output buffer at an index at or beyond the
\* stated capacity as it was, and a call that fails for capacity leaves the
\* whole output buffer as it was
CapacityRespected ==
    [][last'.op \in {"encode", "modulate", "decode"} /\ last'.cause # "null" =>
         LET cap == last'.cap
             failed == last'.cause = "cap"
         IN  CASE last'.op = "encode" ->
                    /\ \A i \in (cap + 1)..Len(symbols) : symbols'[i] = symbols[i]
                    /\ failed => symbols' = symbols
               [] last'.op = "modulate" ->
                    /\ Take(iq', cap, IqBufLen) = Take(iq, cap, IqBufLen)
                    /\ failed => iq' = iq
               [] last'.op = "decode" ->
                    /\ \A i \in (cap + 1)..Len(payload) : payload'[i] = payload[i]
                    /\ failed => payload' = payload]_vars

\* time offsets to try a window base with: the one estimated, and others
\* of either sign up to the length of the input
Shifts(t_off, sample_count) ==
    {t_off, -t_off, 1, -1, sample_count, -sample_count, sample_count + 1}

\* the window of N samples, o apart, that starts at base lies in the input
WindowIn(base, N, o, sample_count) ==
    0 <= base /\ base + (N - 1) * o < sample_count

\* C27: input reads stay in bounds: every window demodulate and
\* lora_demodulate have read, in the estimation pass and in the detection
\* loop with the base shifted by the time offset just estimated or by any
\* other, lies within the sample_count samples of the input
ReadsInBounds ==
    /\ last.op = "demodulate" /\ last.cause = "ok" /\ last.ret > 0 =>
          LET N == Pow2(deduce_sf(plan_fwd))
              t_off == RRound(metrics.time_offset)
          IN  /\ \A s \in 0..(Min(last.ret, 2) - 1) : WindowIn(s * N, N, 1, last.n)
              /\ \A s \in 0..(last.ret - 1), t \in Shifts(t_off, last.n) :
                    WindowIn(window_base(s, N, t, last.n), N, 1, last.n)
    /\ last.op = "lora_demodulate" /\ last.ret > 0 =>
          LET N == dws.N
              o == last.cap
              t_off == RRound(dws.metrics.time_offset)
          IN  /\ \A s \in 0..(Min(last.ret, 2) - 1), t \in 0..(o - 1) :
                    WindowIn(s * N * o + t, N, o, last.n)
              /\ \A s \in 0..(last.ret - 1), u \in Shifts(t_off, last.n) :
                    WindowIn(legacy_base(s, N * o, u, last.n), N, o, last.n)

\* a time offset that would move the last window past the end of the input
ShiftedWindowKept ==
    /\ last.op = "lora_demodulate" /\ last.ret > 0
    /\ RRound(dws.metrics.time_offset) > 0
    /\ legacy_base(last.ret - 1, dws.N * last.cap, RRound(dws.metrics.time_offset), last.n)
         = (last.ret - 1) * dws.N * last.cap

\* C28: failed demodulate changes nothing: a demodulate call that returns a
\* negative value has written no element of the symbol buffer and leaves
\* crc_ok, cfo and time_offset of the metrics exactly as before the call
FailedDemodulateChangesNothing ==
    [][last'.op = "demodulate" /\ last'.ret < 0 =>
         symbols' = symbols /\ metrics' = metrics]_vars

FailedDemodulateOnUsedWorkspace ==
    /\ last.op = "demodulate" /\ last.cause \in {"shape", "cap"}
    /\ last.ret < 0
    /\ metrics # ZeroMetrics

\* what demodulate can write for the first sample_count samples of buf:
\* <<symbols, cfo, time_offset>>, computed from the samples alone
DemodResults(buf, N, sample_count) ==
    UNION {{<<syms, e.cfo, e.time_offset>> :
              syms \in DemodOuts(buf, sample_count, N, RRound(e.time_offset), e.cfo,
                                 sample_count \div N)}
           : e \in Estimates(buf, N, Min(sample_count, 2 * N) \div N)}

====
